---- MODULE Spec2Model ----
(***************************************************************************)
(* State-machine model of the monero-multisig command-line tool.           *)
(*                                                                         *)
(* One step of the model is one invocation of the tool (src/main.rs,       *)
(* fn main): a fresh process that builds an RpcClient, runs one command    *)
(* against the Gateway (the wallet RPC service) and the state store of the *)
(* data directory, and exits.  The Gateway's answer and the command line   *)
(* are the inputs of a step.  What survives between steps is the record in *)
(* the data directory and the transaction set the operators pass around.   *)
(*                                                                         *)
(* Besides the tool as a whole (Spec), three smaller specifications look   *)
(* at one part each: SpecExchange follows the key exchange of one wallet   *)
(* and counts its Partial rounds, SpecRpc follows one RpcClient used by    *)
(* several request calls at once, and SpecCalls evaluates the pure         *)
(* functions of the transaction module on bounded inputs.                  *)
(*                                                                         *)
(* Record constructors list their fields in the order in which the field   *)
(* names first occur in this module, the order TLC keeps records in, so    *)
(* that no record is reordered while several TLC workers read it.          *)
(***************************************************************************)
EXTENDS Integers, Sequences, FiniteSets, TLC

VARIABLES wallet, txset, last, rounds, client, call

vars == <<wallet, txset, last, rounds, client, call>>

\* ---------------------------------------------------------------- bounds
MaxN == 3
MaxSigs == 3
MaxPeers == 2
MaxPriority == 4
MaxTasks == 2
MaxRequests == 4
MaxRounds == 2
MaxAddrLen == 107
MaxMantissa == 15
MaxShift == 13

\* ------------------------------------------------------------ input sets
Labels == {"test"}
WalletAddresses == {"4A", "4B"}
Passwords == {""}
TxHashLists == {<<>>, <<"h1", "h2">>}
Amounts == {1}
Fees == {2}
DestAddresses == {[prefix |-> "4", len |-> 95], [prefix |-> "9", len |-> 50]}
PeerInfos == 0..MaxPeers

\* ------------------------------------------------------- wallet records
Null == [null |-> TRUE]

NotFound == [tag |-> "NotFound"]

MultisigParams(threshold, total, label) ==
    [threshold |-> threshold, total |-> total, label |-> label]

SerializableParams(params) ==
    [threshold |-> params.threshold, total |-> params.total,
     label |-> params.label]

Created(params) ==
    [tag |-> "Created", params |-> params, wallet_path |-> "wallet"]

KeyExchangeInProgress(params, round) ==
    [tag |-> "KeyExchangeInProgress", params |-> params,
     wallet_path |-> "wallet", round |-> round]

Ready(address, params) ==
    [tag |-> "Ready", params |-> params, wallet_path |-> "wallet",
     address |-> address]

\* ------------------------------------------------------ result helpers
Ok(v) == [ok |-> TRUE, value |-> v]

Err(e) == [ok |-> FALSE, error |-> e]

\* ------------------------------------------------------------- Gateway
\* What the wallet RPC service may answer to one HTTP request: no usable
\* answer at all (connection failure, timeout, HTTP error status, undecodable
\* body), or a JSON-RPC response whose result and error are each present or
\* absent.
TransportError == [kind |-> "transport"]

RemoteError == [code |-> -1, message |-> "remote"]

Replies(results) ==
    {TransportError} \cup
    {[error |-> e, kind |-> "response", result |-> r] :
        r \in results \cup {Null}, e \in {Null, RemoteError}}

\* A transaction set is opaque to the tool; the model keeps in it the number
\* of co-signatures the Gateway has applied to it.
TxSet(n) == [sigs |-> n]

Garbage == [garbage |-> TRUE]

IsTxSet(b) == b # Garbage /\ b # Null

PrepareResults == {[multisig_info |-> "info1"]}

ExchangeResults ==
    {[outcome |-> "Partial", next_info |-> "info2"]} \cup
    {[address |-> a, outcome |-> "Complete"] : a \in WalletAddresses}

ExportResults == {[info |-> "export1"]}

ImportResults == {[n_outputs |-> 1]}

TransferResults ==
    {[tx_hash |-> "h1", fee |-> f, multisig_txset |-> TxSet(0)] : f \in Fees}

SignResults(tx_data) ==
    IF IsTxSet(tx_data) /\ tx_data.sigs < MaxSigs
    THEN {[tx_hash_list |-> hl, tx_data_hex |-> TxSet(tx_data.sigs + 1),
           has_applied_count |-> c] : hl \in TxHashLists, c \in BOOLEAN}
    ELSE {}

SubmitResults(tx_data) ==
    IF IsTxSet(tx_data)
    THEN {[tx_hash_list |-> hl] : hl \in TxHashLists}
    ELSE {}

\* ----------------------------------------------------------- RpcClient
RpcClientNew == [request_id |-> 0]

\* format!("{} (code: {})", e.message, e.code)
ErrorText(e) == e.message \o " (code: " \o ToString(e.code) \o ")"

\* request looking at the error object before the result.
request_ErrorFirst(rpc, method, params, reply) ==
    LET id == rpc.request_id
        outcome ==
            IF reply.kind = "transport" THEN Err(<<"transport">>)
            ELSE IF reply.error # Null
                 THEN Err(<<"RPC error: " \o ErrorText(reply.error)>>)
            ELSE IF reply.result # Null THEN Ok(reply.result)
            ELSE Err(<<"RPC error: unknown RPC error">>)
    IN [outcome |-> outcome,
        sent |-> <<[params |-> params, method |-> method, id |-> id]>>]

\* RpcClient::request: the request takes the next identifier; the outcome is
\* the result when the decoded response carries one, an error otherwise.
request(rpc, method, params, reply) ==
    LET id == rpc.request_id
        outcome ==
            IF reply.kind = "transport" THEN Err(<<"transport">>)
            ELSE IF reply.result # Null THEN Ok(reply.result)
            ELSE IF reply.error # Null
                 THEN Err(<<"RPC error: " \o ErrorText(reply.error)>>)
                 ELSE Err(<<"RPC error: unknown RPC error">>)
    IN [outcome |-> outcome,
        sent |-> <<[params |-> params, method |-> method, id |-> id]>>]

\* anyhow's .context(msg): an error is wrapped with the message.
context(r, msg) ==
    [outcome |-> IF r.outcome.ok THEN r.outcome
                 ELSE Err(<<msg>> \o r.outcome.error),
     sent |-> r.sent]

NoRequest(outcome) == [outcome |-> outcome, sent |-> <<>>]

\* --------------------------------------------------------- wallet module
\* MultisigParams::new: the parameters are accepted when 1 <= M <= N, N >= 2.
MultisigParamsNew(threshold, total, label) ==
    IF 1 <= threshold /\ threshold <= total /\ total >= 2
    THEN Ok(MultisigParams(threshold, total, label))
    ELSE Err(<<"InvalidParams">>)

\* State store: one record per data directory.
load_wallet_state(record) ==
    IF record = NotFound THEN Err(<<"NotFound">>) ELSE Ok(record)

save_wallet_state(record, state) == state

\* Gateway prepare_exchange(): this participant's first info blob.  A Gateway
\* failure is wrapped with the name of the method that failed.
prepare_multisig(rpc, reply) ==
    LET r == context(request(rpc, "prepare_exchange", Null, reply),
                     "prepare_exchange RPC call failed")
    IN [outcome |-> IF r.outcome.ok THEN Ok(r.outcome.value.multisig_info)
                    ELSE r.outcome,
        sent |-> r.sent]

\* exchange_keys forwarding an empty peer set to the Gateway.
exchange_keys_NoEmptyCheck(rpc, info, threshold, password, reply) ==
    LET r == context(request(rpc, "do_exchange",
                             [threshold |-> threshold, info |-> info,
                              password |-> password], reply),
                     "do_exchange RPC call failed")
    IN [outcome |-> IF r.outcome.ok THEN r.outcome
                    ELSE Err(<<"KeyExchangeFailed">> \o r.outcome.error),
        sent |-> r.sent]

\* Key Exchange Coordinator: one round against the Gateway.  An empty peer
\* set is InvalidParams; a Gateway failure is KeyExchangeFailed carrying the
\* underlying message, which names the method that failed.
exchange_keys(rpc, info, threshold, password, reply) ==
    IF info = 0 THEN NoRequest(Err(<<"InvalidParams">>))
    ELSE LET r == context(request(rpc, "do_exchange",
                                  [threshold |-> threshold, info |-> info,
                                   password |-> password], reply),
                          "do_exchange RPC call failed")
         IN [outcome |-> IF r.outcome.ok THEN r.outcome
                         ELSE Err(<<"KeyExchangeFailed">> \o r.outcome.error),
             sent |-> r.sent]

\* ----------------------------------------------------- transaction module
export_multisig_info(rpc, reply) ==
    LET r == context(request(rpc, "export_multisig_info", Null, reply),
                     "export_multisig_info RPC call failed")
    IN [outcome |-> IF r.outcome.ok THEN Ok(r.outcome.value.info)
                    ELSE r.outcome,
        sent |-> r.sent]

import_multisig_info(rpc, info, reply) ==
    LET r == context(request(rpc, "import_multisig_info", [info |-> info],
                             reply),
                     "import_multisig_info RPC call failed")
    IN [outcome |-> IF r.outcome.ok THEN Ok(Null) ELSE r.outcome,
        sent |-> r.sent]

\* enum Priority as u32.
Priority == [Default |-> 0, Low |-> 1, Medium |-> 2, High |-> 3]

build_unsigned_tx(rpc, destinations, priority, reply) ==
    LET r == context(request(rpc, "transfer",
                             [destinations |-> destinations,
                              priority |-> priority,
                              get_tx_hex |-> FALSE, do_not_relay |-> TRUE],
                             reply),
                     "transfer RPC call failed")
    IN [outcome |-> IF r.outcome.ok
                    THEN Ok([tx_hash |-> r.outcome.value.tx_hash,
                             fee |-> r.outcome.value.fee,
                             tx_data_hex |-> r.outcome.value.multisig_txset])
                    ELSE r.outcome,
        sent |-> r.sent]

\* tx_hash_list.into_iter().next().unwrap_or_default()
FirstOrDefault(list) == IF Len(list) > 0 THEN Head(list) ELSE ""

\* Decoding into SignMultisigResponse keeps tx_hash_list and tx_data_hex and
\* nothing else of the Gateway's answer.
SignMultisigResponse(result) ==
    [tx_hash_list |-> result.tx_hash_list, tx_data_hex |-> result.tx_data_hex]

\* sign_multisig_tx sending the request a second time when it failed.
sign_multisig_tx_Retry(rpc, tx_data_hex, reply) ==
    LET r == context(request(rpc, "sign_multisig",
                             [tx_data_hex |-> tx_data_hex], reply),
                     "sign_multisig RPC call failed")
    IN [outcome |-> IF r.outcome.ok
                    THEN LET resp == SignMultisigResponse(r.outcome.value)
                         IN Ok([tx_hash |-> FirstOrDefault(resp.tx_hash_list),
                                tx_data_hex |-> resp.tx_data_hex,
                                signatures_count |-> 0,
                                signatures_required |-> 0])
                    ELSE r.outcome,
        sent |-> IF r.outcome.ok THEN r.sent ELSE r.sent \o r.sent]

sign_multisig_tx(rpc, tx_data_hex, reply) ==
    LET r == context(request(rpc, "sign_multisig",
                             [tx_data_hex |-> tx_data_hex], reply),
                     "sign_multisig RPC call failed")
    IN [outcome |-> IF r.outcome.ok
                    THEN LET resp == SignMultisigResponse(r.outcome.value)
                         IN Ok([tx_hash |-> FirstOrDefault(resp.tx_hash_list),
                                tx_data_hex |-> resp.tx_data_hex,
                                signatures_count |-> 0,
                                signatures_required |-> 0])
                    ELSE r.outcome,
        sent |-> r.sent]

\* submit_multisig_tx failing when the Gateway names no transaction hash.
submit_multisig_tx_EmptyIsError(rpc, tx_data_hex, reply) ==
    LET r == context(request(rpc, "submit_multisig",
                             [tx_data_hex |-> tx_data_hex], reply),
                     "submit_multisig RPC call failed")
    IN [outcome |-> IF ~r.outcome.ok THEN r.outcome
                    ELSE IF Len(r.outcome.value.tx_hash_list) = 0
                    THEN Err(<<"Rejected">>)
                    ELSE Ok([tx_hash |-> Head(r.outcome.value.tx_hash_list)]),
        sent |-> r.sent]

submit_multisig_tx(rpc, tx_data_hex, reply) ==
    LET r == context(request(rpc, "submit_multisig",
                             [tx_data_hex |-> tx_data_hex], reply),
                     "submit_multisig RPC call failed")
    IN [outcome |-> IF r.outcome.ok
                    THEN Ok([tx_hash |->
                                FirstOrDefault(r.outcome.value.tx_hash_list)])
                    ELSE r.outcome,
        sent |-> r.sent]

\* Networks of the configuration; Config::default is on mainnet.
Networks == {"mainnet", "testnet", "stagenet"}

ConfigNetwork == "mainnet"

\* validate_address accepting every length from the standard one upwards.
validate_address_MinLength(address, network) ==
    LET expected_prefix == IF network = "mainnet" THEN "4" ELSE "9"
    IN IF address.prefix # expected_prefix
       THEN Err(<<"address should start with the network prefix">>)
       ELSE IF ~(address.len >= 95)
       THEN Err(<<"invalid address length">>)
       ELSE Ok(Null)

\* An address is kept as its first character ("" for the empty string) and
\* its length in bytes (str::len), the two things validate_address looks at.
validate_address(address, network) ==
    LET expected_prefix == IF network = "mainnet" THEN "4" ELSE "9"
    IN IF address.prefix # expected_prefix
       THEN Err(<<"address should start with the network prefix">>)
       ELSE IF ~(address.len = 95 \/ address.len = 106)
       THEN Err(<<"invalid address length">>)
       ELSE Ok(Null)

\* A u64 is kept as its decimal digits, most significant first and without
\* leading zeros (<<0>> for zero): 10^12 and u64::MAX do not fit the integers
\* of the model checker, and the arithmetic of format_xmr is done on digits.
XmrDecimals == 12

U64Max == <<1, 8, 4, 4, 6, 7, 4, 4, 0, 7, 3, 7, 0, 9, 5, 5, 1, 6, 1, 5>>

RECURSIVE Canonical(_)
Canonical(digits) ==
    IF Len(digits) > 1 /\ digits[1] = 0 THEN Canonical(Tail(digits))
    ELSE digits

Zeros(n) == [i \in 1..n |-> 0]

\* piconero / 10^k and piconero % 10^k.
DivPow10(digits, k) ==
    IF Len(digits) <= k THEN <<0>>
    ELSE SubSeq(digits, 1, Len(digits) - k)

ModPow10(digits, k) ==
    IF Len(digits) <= k THEN digits
    ELSE Canonical(SubSeq(digits, Len(digits) - k + 1, Len(digits)))

DigitChars == <<"0", "1", "2", "3", "4", "5", "6", "7", "8", "9">>

\* Display of an unsigned integer: "{n}".
Display(digits) == [i \in 1..Len(digits) |-> DigitChars[digits[i] + 1]]

\* Display with a minimum width, filled with zeros on the left: "{n:0w}".
DisplayPadded(digits, width) ==
    LET text == Display(digits)
    IN IF Len(text) >= width THEN text
       ELSE [i \in 1..(width - Len(text)) |-> "0"] \o text

\* format_xmr without the zero fill of the fraction.
format_xmr_NoFill(piconero) ==
    LET whole == DivPow10(piconero, XmrDecimals)
        frac == ModPow10(piconero, XmrDecimals)
    IN Display(whole) \o <<".">> \o Display(frac)

\* The string is kept as the sequence of its characters.
format_xmr(piconero) ==
    LET whole == DivPow10(piconero, XmrDecimals)
        frac == ModPow10(piconero, XmrDecimals)
    IN Display(whole) \o <<".">> \o DisplayPadded(frac, XmrDecimals)

\* ------------------------------------------------------- main: commands
\* Each command is the body of one match arm of main: from the record in the
\* data directory, the command line and the Gateway's reply it yields the
\* record left in the data directory, the requests sent and the exit outcome.
Exit(record, r) == [wallet |-> record, outcome |-> r.outcome, sent |-> r.sent]

\* CreateWalletCmd with the record written before the Gateway has answered.
CreateWalletCmd_SaveFirst(record, threshold, participants, label, reply) ==
    LET rpc == RpcClientNew
        params == MultisigParamsNew(threshold, participants, label)
    IN IF ~params.ok THEN Exit(record, NoRequest(params))
       ELSE LET state == Created(SerializableParams(params.value))
                saved == save_wallet_state(record, state)
                info == prepare_multisig(rpc, reply)
            IN Exit(saved, info)

\* CreateWalletCmd asking the Gateway before the parameters are validated.
CreateWalletCmd_PrepareFirst(record, threshold, participants, label, reply) ==
    LET rpc == RpcClientNew
        info == prepare_multisig(rpc, reply)
        params == MultisigParamsNew(threshold, participants, label)
    IN IF ~params.ok
       THEN Exit(record, [outcome |-> params, sent |-> info.sent])
       ELSE IF ~info.outcome.ok THEN Exit(record, info)
       ELSE LET state == Created(SerializableParams(params.value))
            IN Exit(save_wallet_state(record, state), info)

CreateWalletCmd(record, threshold, participants, label, reply) ==
    LET rpc == RpcClientNew
        params == MultisigParamsNew(threshold, participants, label)
    IN IF ~params.ok THEN Exit(record, NoRequest(params))
       ELSE LET info == prepare_multisig(rpc, reply)
            IN IF ~info.outcome.ok THEN Exit(record, info)
               ELSE LET state == Created(SerializableParams(params.value))
                    IN Exit(save_wallet_state(record, state), info)

\* ExchangeKeysCmd without the arm that rejects a Ready wallet.
ExchangeKeysCmd_NoReadyCheck(record, info, password, reply) ==
    LET rpc == RpcClientNew
        state == context(NoRequest(load_wallet_state(record)),
                         "load wallet state")
    IN IF ~state.outcome.ok THEN Exit(record, state)
       ELSE LET threshold == state.outcome.value.params.threshold
                result == exchange_keys(rpc, info, threshold, password, reply)
            IN IF ~result.outcome.ok THEN Exit(record, result)
               ELSE IF result.outcome.value.outcome = "Partial"
               THEN Exit(record, result)
               ELSE LET ready == Ready(result.outcome.value.address,
                                       state.outcome.value.params)
                    IN Exit(save_wallet_state(record, ready), result)

\* ExchangeKeysCmd with the Complete arm printing the address without saving.
ExchangeKeysCmd_CompleteNotSaved(record, info, password, reply) ==
    LET rpc == RpcClientNew
        state == context(NoRequest(load_wallet_state(record)),
                         "load wallet state")
    IN IF ~state.outcome.ok THEN Exit(record, state)
       ELSE IF state.outcome.value.tag = "Ready"
       THEN Exit(record, NoRequest(Err(<<"wallet is already fully set up">>)))
       ELSE LET threshold == state.outcome.value.params.threshold
                result == exchange_keys(rpc, info, threshold, password, reply)
            IN Exit(record, result)

\* ExchangeKeysCmd stopping the exchange as Ready on a Partial outcome, as
\* if a locally computed round target had been met.
ExchangeKeysCmd_PartialCompletes(record, info, password, reply) ==
    LET rpc == RpcClientNew
        state == context(NoRequest(load_wallet_state(record)),
                         "load wallet state")
    IN IF ~state.outcome.ok THEN Exit(record, state)
       ELSE IF state.outcome.value.tag = "Ready"
       THEN Exit(record, NoRequest(Err(<<"wallet is already fully set up">>)))
       ELSE LET threshold == state.outcome.value.params.threshold
                result == exchange_keys(rpc, info, threshold, password, reply)
            IN IF ~result.outcome.ok THEN Exit(record, result)
               ELSE LET ready ==
                            Ready(IF result.outcome.value.outcome = "Partial"
                                  THEN "" ELSE result.outcome.value.address,
                                  state.outcome.value.params)
                    IN Exit(save_wallet_state(record, ready), result)

ExchangeKeysCmd(record, info, password, reply) ==
    LET rpc == RpcClientNew
        state == context(NoRequest(load_wallet_state(record)),
                         "load wallet state")
    IN IF ~state.outcome.ok THEN Exit(record, state)
       ELSE IF state.outcome.value.tag = "Ready"
       THEN Exit(record, NoRequest(Err(<<"wallet is already fully set up">>)))
       ELSE LET threshold == state.outcome.value.params.threshold
                result == exchange_keys(rpc, info, threshold, password, reply)
            IN IF ~result.outcome.ok THEN Exit(record, result)
               ELSE IF result.outcome.value.outcome = "Partial"
               THEN Exit(record, result)
               ELSE LET ready == Ready(result.outcome.value.address,
                                       state.outcome.value.params)
                    IN Exit(save_wallet_state(record, ready), result)

ExportInfoCmd(record, reply) ==
    Exit(record, export_multisig_info(RpcClientNew, reply))

ImportInfoCmd(record, info, reply) ==
    Exit(record, import_multisig_info(RpcClientNew, info, reply))

\* PriorityOf taking every value above High as High.
PriorityOf_Clamped(priority) ==
    CASE priority = 1 -> Priority.Low
      [] priority = 2 -> Priority.Medium
      [] priority >= 3 -> Priority.High
      [] OTHER -> Priority.Default

\* The match on --priority of the build-tx arm.
PriorityOf(priority) ==
    CASE priority = 1 -> Priority.Low
      [] priority = 2 -> Priority.Medium
      [] priority = 3 -> Priority.High
      [] OTHER -> Priority.Default

BuildTxCmd(record, address, amount, priority, reply) ==
    LET destinations == <<[address |-> address, amount |-> amount]>>
    IN Exit(record, build_unsigned_tx(RpcClientNew, destinations,
                                      PriorityOf(priority), reply))

SignTxCmd(record, tx_data, reply) ==
    Exit(record, sign_multisig_tx(RpcClientNew, tx_data, reply))

\* SubmitTxCmd removing the record once the transaction is submitted.
SubmitTxCmd_DropsRecord(record, tx_data, reply) ==
    LET r == submit_multisig_tx(RpcClientNew, tx_data, reply)
    IN Exit(IF r.outcome.ok THEN NotFound ELSE record, r)

SubmitTxCmd(record, tx_data, reply) ==
    Exit(record, submit_multisig_tx(RpcClientNew, tx_data, reply))

\* ------------------------------------------------- concurrent requests
\* fetch_add handing out the value without advancing the counter.
fetch_add_NoAdvance(v) == [old |-> v, new |-> v]

\* AtomicU64::fetch_add(1): the value before, and the value stored.
fetch_add(v) == [old |-> v, new |-> v + 1]

Tasks == 1..MaxTasks

\* RpcClient::new, no request call in progress.
RpcInit ==
    [request_id |-> RpcClientNew.request_id,
     id |-> [t \in Tasks |-> 0],
     pc |-> [t \in Tasks |-> "idle"],
     drawn |-> <<>>,
     wire |-> <<>>]

NoCall == [fn |-> "none"]

\* ---------------------------------------------------------------- state
\* wallet: the record in the data directory.  txset: the transaction set in
\* circulation among the co-signers (Null before the first build-tx).
\* last: the last invocation (command line, record found, Gateway reply,
\* requests sent, exit outcome).
\* rounds: Partial exchange rounds since the record was created (SpecExchange).
\* client: one RpcClient and the request calls in progress on it (SpecRpc).
\* call: the last evaluation of a pure function (SpecCalls).
Invocation(cmd, args, reply, r) ==
    [outcome |-> r.outcome, reply |-> reply, sent |-> r.sent,
     cmd |-> cmd, args |-> args, before |-> wallet]

TxInputs == {Garbage} \cup (IF txset = Null THEN {} ELSE {txset})

Init ==
    /\ wallet = NotFound
    /\ txset = Null
    /\ last = [outcome |-> Ok(Null), reply |-> Null, sent |-> <<>>,
               cmd |-> "none", args |-> Null, before |-> NotFound]
    /\ rounds = 0
    /\ client = RpcInit
    /\ call = NoCall

CreateWallet ==
    \E threshold \in 0..MaxN, participants \in 0..MaxN, label \in Labels,
       reply \in Replies(PrepareResults) :
        \E r \in {CreateWalletCmd(wallet, threshold, participants, label, reply)} :
           /\ wallet' = r.wallet
           /\ last' = Invocation("create-wallet",
                                 [threshold |-> threshold, label |-> label,
                                  participants |-> participants], reply, r)
           /\ UNCHANGED <<txset, rounds, client, call>>

ExchangeKeys ==
    \E info \in PeerInfos, password \in Passwords,
       reply \in Replies(ExchangeResults) :
        \E r \in {ExchangeKeysCmd(wallet, info, password, reply)} :
           /\ wallet' = r.wallet
           /\ last' = Invocation("exchange-keys",
                                 [info |-> info, password |-> password],
                                 reply, r)
           /\ UNCHANGED <<txset, rounds, client, call>>

ExportInfo ==
    \E reply \in Replies(ExportResults) :
        \E r \in {ExportInfoCmd(wallet, reply)} :
           /\ wallet' = r.wallet
           /\ last' = Invocation("export-info", Null, reply, r)
           /\ UNCHANGED <<txset, rounds, client, call>>

ImportInfo ==
    \E info \in PeerInfos, reply \in Replies(ImportResults) :
        \E r \in {ImportInfoCmd(wallet, info, reply)} :
           /\ wallet' = r.wallet
           /\ last' = Invocation("import-info", [info |-> info], reply, r)
           /\ UNCHANGED <<txset, rounds, client, call>>

BuildTx ==
    \E address \in DestAddresses, amount \in Amounts,
       priority \in 0..MaxPriority, reply \in Replies(TransferResults) :
        \E r \in {BuildTxCmd(wallet, address, amount, priority, reply)} :
           /\ wallet' = r.wallet
           /\ last' = Invocation("build-tx",
                                 [address |-> address, priority |-> priority,
                                  amount |-> amount], reply, r)
           /\ txset' = IF r.outcome.ok THEN r.outcome.value.tx_data_hex
                       ELSE txset
           /\ UNCHANGED <<rounds, client, call>>

SignTx ==
    \E tx_data \in TxInputs :
    \E reply \in Replies(SignResults(tx_data)) :
        \E r \in {SignTxCmd(wallet, tx_data, reply)} :
           /\ wallet' = r.wallet
           /\ last' = Invocation("sign-tx", [tx_data |-> tx_data], reply, r)
           /\ txset' = IF r.outcome.ok THEN r.outcome.value.tx_data_hex
                       ELSE txset
           /\ UNCHANGED <<rounds, client, call>>

SubmitTx ==
    \E tx_data \in TxInputs :
    \E reply \in Replies(SubmitResults(tx_data)) :
        \E r \in {SubmitTxCmd(wallet, tx_data, reply)} :
           /\ wallet' = r.wallet
           /\ last' = Invocation("submit-tx", [tx_data |-> tx_data], reply, r)
           /\ UNCHANGED <<txset, rounds, client, call>>

Next ==
    \/ CreateWallet
    \/ ExchangeKeys
    \/ ExportInfo
    \/ ImportInfo
    \/ BuildTx
    \/ SignTx
    \/ SubmitTx

Spec == Init /\ [][Next]_vars

\* ------------------------------------------------- the key exchange alone
\* create-wallet and exchange-keys as above, with rounds counting the Partial
\* rounds since the record was created.
ExchangeCreate ==
    \E threshold \in 0..MaxN, participants \in 0..MaxN, label \in Labels,
       reply \in Replies(PrepareResults) :
        \E r \in {CreateWalletCmd(wallet, threshold, participants, label, reply)} :
           /\ wallet' = r.wallet
           /\ last' = Invocation("create-wallet",
                                 [threshold |-> threshold, label |-> label,
                                  participants |-> participants], reply, r)
           /\ rounds' = IF r.outcome.ok THEN 0 ELSE rounds
           /\ UNCHANGED <<txset, client, call>>

ExchangeRound ==
    \E info \in PeerInfos, password \in Passwords,
       reply \in Replies(ExchangeResults) :
        \E r \in {ExchangeKeysCmd(wallet, info, password, reply)} :
           /\ r.outcome.ok => r.outcome.value.outcome = "Complete"
                                \/ rounds < MaxRounds
           /\ wallet' = r.wallet
           /\ last' = Invocation("exchange-keys",
                                 [info |-> info, password |-> password],
                                 reply, r)
           /\ rounds' = IF r.outcome.ok /\ r.outcome.value.outcome = "Partial"
                        THEN rounds + 1 ELSE rounds
           /\ UNCHANGED <<txset, client, call>>

NextExchange ==
    \/ ExchangeCreate
    \/ ExchangeRound

SpecExchange == Init /\ [][NextExchange]_vars

\* ------------------------------------- request calls sharing one RpcClient
\* A call of request draws its id with fetch_add, then sends the body that
\* carries it; the calls of different tasks interleave between the two.
RequestFetchAdd(t) ==
    /\ client.pc[t] = "idle"
    /\ Len(client.drawn) < MaxRequests
    /\ \E fa \in {fetch_add(client.request_id)} :
          client' = [request_id |-> fa.new,
                     id |-> [client.id EXCEPT ![t] = fa.old],
                     pc |-> [client.pc EXCEPT ![t] = "drawn"],
                     drawn |-> Append(client.drawn, fa.old),
                     wire |-> client.wire]
    /\ UNCHANGED <<wallet, txset, last, rounds, call>>

RequestSend(t) ==
    /\ client.pc[t] = "drawn"
    /\ client' = [client EXCEPT !.pc[t] = "sent",
                                !.wire = Append(@, client.id[t])]
    /\ UNCHANGED <<wallet, txset, last, rounds, call>>

RequestDone(t) ==
    /\ client.pc[t] = "sent"
    /\ client' = [client EXCEPT !.pc[t] = "idle"]
    /\ UNCHANGED <<wallet, txset, last, rounds, call>>

NextRpc ==
    \E t \in Tasks :
        \/ RequestFetchAdd(t)
        \/ RequestSend(t)
        \/ RequestDone(t)

SpecRpc == Init /\ [][NextRpc]_vars

\* ------------------------------------------------- the pure functions
AddrInputs ==
    {[prefix |-> "", len |-> 0]} \cup
    {[prefix |-> c, len |-> n] : c \in {"4", "9", "8"}, n \in 1..MaxAddrLen}

\* Amounts hi * 10^w + lo for small hi, lo and every w up to MaxShift, and
\* the largest u64.
ToDigits(n) == IF n < 10 THEN <<n>> ELSE <<n \div 10, n % 10>>

PiconeroInputs ==
    {U64Max} \cup
    {Canonical(ToDigits(hi)
               \o Zeros(IF w > Len(ToDigits(lo)) THEN w - Len(ToDigits(lo))
                        ELSE 0)
               \o ToDigits(lo)) :
        hi \in 0..MaxMantissa, lo \in 0..MaxMantissa, w \in 1..MaxShift}

\* One call per behaviour: the function is applied to an input drawn from
\* the bounded sets and the call is recorded.
ValidateAddress ==
    /\ call = NoCall
    /\ \E address \in AddrInputs, network \in Networks :
          call' = [address |-> address,
                   result |-> validate_address(address, network),
                   network |-> network, fn |-> "validate_address"]
    /\ UNCHANGED <<wallet, txset, last, rounds, client>>

FormatXmr ==
    /\ call = NoCall
    /\ \E piconero \in PiconeroInputs :
          call' = [result |-> format_xmr(piconero), piconero |-> piconero,
                   fn |-> "format_xmr"]
    /\ UNCHANGED <<wallet, txset, last, rounds, client>>

\* Responses with each error object the Gateway may put next to, or in
\* place of, the result.
RemoteErrors == {RemoteError, [code |-> -32601, message |-> "Method not found"]}

CallReplies ==
    {TransportError} \cup
    {[error |-> e, kind |-> "response", result |-> r] :
        r \in ExportResults \cup SubmitResults(TxSet(0)) \cup {Null},
        e \in RemoteErrors \cup {Null}}

RequestCall ==
    /\ call = NoCall
    /\ \E reply \in CallReplies :
          call' = [result |-> request(RpcClientNew, "export_multisig_info",
                                      Null, reply),
                   reply |-> reply, fn |-> "request"]
    /\ UNCHANGED <<wallet, txset, last, rounds, client>>

NextCalls ==
    \/ ValidateAddress
    \/ FormatXmr
    \/ RequestCall

SpecCalls == Init /\ [][NextCalls]_vars

\* =============================================================== claims
NotYetReady(record) == record.tag \in {"Created", "KeyExchangeInProgress"}

ValidParams(args) ==
    1 <= args.threshold /\ args.threshold <= args.participants
        /\ args.participants >= 2

\* The Gateway call of the last invocation was made and did not yield a result.
GatewayFailed ==
    /\ last.sent # <<>>
    /\ (last.reply.kind = "transport" \/ last.reply.result = Null)

\* The last invocation was an exchange-keys round with the given outcome.
ExchangeOutcome(kind) ==
    /\ last.cmd = "exchange-keys"
    /\ last.outcome.ok
    /\ last.outcome.value.outcome = kind

RoundOf(record) ==
    IF record.tag = "KeyExchangeInProgress" THEN record.round ELSE 0

\* Signatures the Gateway has applied to a transaction set.
Applied(tx_data) == IF IsTxSet(tx_data) THEN tx_data.sigs ELSE 0

\* Readiness as the signing result reports it: count against required.
ready_to_submit(signed) == signed.signatures_count >= signed.signatures_required

\* C1: for valid (M, N), create-wallet on a directory without a record
\* succeeds (the Gateway having answered) and persists Created, and a
\* create-wallet on a directory that holds a record, whatever its state,
\* fails with AlreadyExists.
C1_CreateOncePerDirectory ==
    (last.cmd = "create-wallet" /\ ValidParams(last.args)) =>
        /\ (last.before = NotFound /\ ~GatewayFailed) =>
               /\ last.outcome.ok
               /\ wallet = Created(MultisigParams(last.args.threshold,
                                                  last.args.participants,
                                                  last.args.label))
        /\ (last.before # NotFound) =>
               /\ ~last.outcome.ok
               /\ last.outcome.error = <<"AlreadyExists">>

\* C2: exchange-keys on a Ready wallet always fails with "wallet is already
\* fully set up", for every peer blob set, password and Gateway behaviour.
C2_ExchangeFromReadyFails ==
    (last.cmd = "exchange-keys" /\ last.before.tag = "Ready") =>
        /\ ~last.outcome.ok
        /\ last.outcome.error = <<"wallet is already fully set up">>

C2_Witness ==
    /\ last.cmd = "exchange-keys"
    /\ last.before.tag = "Ready"
    /\ last.args.info > 0
    /\ ~last.outcome.ok

\* C3: build-tx, sign-tx and submit-tx fail with NotReady, without reaching
\* the Gateway, whenever the persisted state is Created or
\* KeyExchangeInProgress.
C3_TxCommandsNeedReady ==
    (last.cmd \in {"build-tx", "sign-tx", "submit-tx"}
        /\ NotYetReady(last.before)) =>
        /\ ~last.outcome.ok
        /\ last.outcome.error = <<"NotReady">>
        /\ last.sent = <<>>

\* C4: after an exchange-keys round with a Partial outcome, started from
\* Created or KeyExchangeInProgress(r), the persisted state is
\* KeyExchangeInProgress with the round increased by one (Created is round 0).
C4_PartialAdvancesRound ==
    (ExchangeOutcome("Partial") /\ NotYetReady(last.before)) =>
        wallet = KeyExchangeInProgress(last.before.params,
                                       RoundOf(last.before) + 1)

\* C5: after an exchange-keys round with a Complete(address) outcome, started
\* from Created or KeyExchangeInProgress, the persisted state is Ready with
\* exactly that address and the params of the state before the round.
C5_CompleteMakesReady ==
    (ExchangeOutcome("Complete") /\ NotYetReady(last.before)) =>
        /\ wallet = Ready(last.reply.result.address, last.before.params)
        /\ wallet.params = last.before.params
        /\ wallet.address = last.outcome.value.address

C5_Witness ==
    /\ ExchangeOutcome("Complete")
    /\ last.before.tag = "Created"
    /\ last.before.params.threshold = 2
    /\ last.before.params.total = 3
    /\ wallet.tag = "Ready"
    /\ wallet.address = "4B"

\* C6: end-to-end for a 2-of-3 wallet labelled "test": create-wallet leaves
\* Created; from there an exchange-keys round with 2 peer blobs and a Partial
\* outcome leaves KeyExchangeInProgress(1); from there a round with outcome
\* Complete(address) leaves Ready(address); from there exchange-keys fails
\* with "wallet is already fully set up".
C6_Params == MultisigParams(2, 3, "test")

C6_EndToEnd ==
    /\ (/\ last.cmd = "create-wallet"
        /\ last.args = [threshold |-> 2, label |-> "test", participants |-> 3]
        /\ last.before = NotFound
        /\ last.outcome.ok)
           => wallet = Created(C6_Params)
    /\ (/\ ExchangeOutcome("Partial")
        /\ last.before = Created(C6_Params)
        /\ last.args.info = 2)
           => wallet = KeyExchangeInProgress(C6_Params, 1)
    /\ (/\ ExchangeOutcome("Complete")
        /\ last.before = KeyExchangeInProgress(C6_Params, 1))
           => wallet = Ready(last.outcome.value.address, C6_Params)
    /\ (/\ last.cmd = "exchange-keys"
        /\ last.before.tag = "Ready"
        /\ last.before.params = C6_Params)
           => /\ ~last.outcome.ok
              /\ last.outcome.error = <<"wallet is already fully set up">>

\* C7: when the Gateway call of a create-wallet or exchange-keys invocation
\* fails, the record in the data directory after the invocation is the one
\* found before it (absent when it was absent).
C7_FailedRoundKeepsRecord ==
    (last.cmd \in {"create-wallet", "exchange-keys"} /\ GatewayFailed) =>
        /\ wallet = last.before
        /\ ~last.outcome.ok

C7_Witness ==
    /\ last.cmd = "create-wallet"
    /\ ValidParams(last.args)
    /\ GatewayFailed
    /\ last.before = NotFound
    /\ wallet = NotFound

\* C8: a successful signing result reports the number of signatures applied
\* to the transaction set so far, and reports readiness to submit if and only
\* if that number is at least the wallet's threshold M (stated for a Ready
\* wallet, the state in which signing is a permitted operation).
C8_SignReportsCountAndReadiness ==
    (last.cmd = "sign-tx" /\ last.outcome.ok /\ last.before.tag = "Ready") =>
        LET signed == last.outcome.value
            applied == Applied(signed.tx_data_hex)
        IN /\ signed.signatures_count = applied
           /\ ready_to_submit(signed) <=> applied >= last.before.params.threshold

\* C9: when the Gateway's sign response carries no signature count (and the
\* command line has none to supply), signing ends with an error (stated for
\* a Ready wallet, the state in which signing is a permitted operation).
C9_UnknownCountIsError ==
    (/\ last.cmd = "sign-tx"
     /\ last.before.tag = "Ready"
     /\ last.sent # <<>>
     /\ last.reply.kind = "response"
     /\ last.reply.result # Null
     /\ ~last.reply.result.has_applied_count)
        => ~last.outcome.ok

\* C10: a transaction set is sent to the Gateway's submit operation only when
\* at least M signatures have been applied to it, M the wallet's threshold
\* (stated for a Ready wallet and a transaction set the Gateway produced).
C10_SubmitNeedsQuorum ==
    (last.cmd = "submit-tx" /\ last.before.tag = "Ready") =>
        \A i \in 1..Len(last.sent) :
            (/\ last.sent[i].method = "submit_multisig"
             /\ IsTxSet(last.sent[i].params.tx_data_hex)) =>
                Applied(last.sent[i].params.tx_data_hex)
                    >= last.before.params.threshold

\* C11: local validation errors come before any Gateway request: create-wallet
\* with parameters violating 1 <= M <= N, N >= 2, and exchange-keys on a Ready
\* wallet, fail with no request sent and the record left as it was.
C11_ValidationBeforeGateway ==
    /\ (last.cmd = "create-wallet" /\ ~ValidParams(last.args)) =>
           /\ ~last.outcome.ok
           /\ last.outcome.error = <<"InvalidParams">>
           /\ last.sent = <<>>
           /\ wallet = last.before
    /\ (last.cmd = "exchange-keys" /\ last.before.tag = "Ready") =>
           /\ ~last.outcome.ok
           /\ last.sent = <<>>
           /\ wallet = last.before

C11_Witness ==
    /\ last.cmd = "create-wallet"
    /\ last.args.threshold = 3
    /\ last.args.participants = 2
    /\ last.reply.kind = "response"
    /\ last.reply.result # Null
    /\ ~last.outcome.ok

\* C12: build-tx sends a destination to the Gateway's transfer operation only
\* if its address passes validate_address for the configured network (stated
\* for a Ready wallet, the state in which build-tx is a permitted operation).
C12_OnlyValidDestinationsSent ==
    (last.cmd = "build-tx" /\ last.before.tag = "Ready") =>
        \A i \in 1..Len(last.sent) :
            last.sent[i].method = "transfer" =>
                \A j \in 1..Len(last.sent[i].params.destinations) :
                    validate_address(
                        last.sent[i].params.destinations[j].address,
                        ConfigNetwork).ok

\* C15: once the record is Ready it stays that same Ready record, whatever
\* command runs next and whether it succeeds or fails.
C15_ReadyIsTerminal ==
    [][wallet.tag = "Ready" => wallet' = wallet]_vars

\* The Gateway answered the last exchange-keys round of a record that was not
\* yet Ready with the given outcome.
GatewayRound(kind) ==
    /\ last.cmd = "exchange-keys"
    /\ NotYetReady(last.before)
    /\ last.sent # <<>>
    /\ last.reply.kind = "response"
    /\ last.reply.result # Null
    /\ last.reply.result.outcome = kind

\* C16: after any number of Partial rounds since Created, a round the Gateway
\* answers with Partial succeeds and leaves the wallet not Ready with its
\* parameters, and a round the Gateway answers with Complete(address) ends in
\* Ready(address) with the parameters of the record.
C16_PartialRoundsThenComplete ==
    /\ rounds \in 0..MaxRounds
    /\ GatewayRound("Partial") =>
          /\ ExchangeOutcome("Partial")
          /\ NotYetReady(wallet)
          /\ wallet.params = last.before.params
    /\ GatewayRound("Complete") =>
          /\ ExchangeOutcome("Complete")
          /\ wallet = Ready(last.reply.result.address, last.before.params)
    /\ (wallet.tag = "Ready" /\ last.cmd = "exchange-keys"
            /\ last.before.tag # "Ready") => GatewayRound("Complete")

C16_Witness ==
    /\ rounds = MaxRounds
    /\ GatewayRound("Complete")
    /\ wallet.tag = "Ready"

\* The Gateway method each command requests, and the context a failure of
\* that method is wrapped with.
MethodOf(cmd) ==
    CASE cmd = "create-wallet" -> "prepare_exchange"
      [] cmd = "exchange-keys" -> "do_exchange"
      [] cmd = "export-info" -> "export_multisig_info"
      [] cmd = "import-info" -> "import_multisig_info"
      [] cmd = "build-tx" -> "transfer"
      [] cmd = "sign-tx" -> "sign_multisig"
      [] cmd = "submit-tx" -> "submit_multisig"

FailureContext(method) == method \o " RPC call failed"

Names(error, method) ==
    \E i \in DOMAIN error : error[i] = FailureContext(method)

\* C18: an invocation requests its Gateway method at most once, and when
\* that request fails the invocation sends nothing more and ends with an
\* error whose chain names the method that failed.
C18_NoRetryAndMethodNamed ==
    last.cmd # "none" =>
        /\ Len(last.sent) <= 1
        /\ \A i \in DOMAIN last.sent : last.sent[i].method = MethodOf(last.cmd)
        /\ GatewayFailed =>
              /\ ~last.outcome.ok
              /\ Names(last.outcome.error, MethodOf(last.cmd))

C18_Witness ==
    /\ last.cmd = "sign-tx"
    /\ GatewayFailed
    /\ ~last.outcome.ok

\* The last invocation was exchange-keys with no peer blob on a Created record.
EmptyFirstRound ==
    /\ last.cmd = "exchange-keys"
    /\ last.before.tag = "Created"
    /\ last.args.info = 0

\* C19: exchange-keys with an empty peer set on a Created record fails with
\* InvalidParams, sends nothing to the Gateway and leaves the record Created.
C19_EmptyPeerSetRejected ==
    EmptyFirstRound =>
        /\ ~last.outcome.ok
        /\ last.outcome.error = <<"InvalidParams">>
        /\ last.sent = <<>>
        /\ wallet = last.before

C19_Witness ==
    /\ EmptyFirstRound
    /\ ~last.outcome.ok
    /\ wallet.tag = "Created"

TransactionCommands ==
    {"export-info", "import-info", "build-tx", "sign-tx", "submit-tx"}

\* C20: export-info, import-info, build-tx, sign-tx and submit-tx leave the
\* record as they found it, whatever its state and whatever the Gateway says.
C20_TransactionCommandsKeepRecord ==
    last.cmd \in TransactionCommands => wallet = last.before

C20_Witness ==
    /\ last.cmd = "submit-tx"
    /\ last.outcome.ok
    /\ last.before.tag = "Ready"
    /\ wallet = last.before

\* The prefix each network expects and the lengths an address may have.
ExpectedPrefix == [mainnet |-> "4", testnet |-> "9", stagenet |-> "9"]

AcceptedLengths == {95, 106}

\* C13: validate_address succeeds exactly when the address starts with the
\* prefix of the network and its length is 95 or 106.
C13_AddressAcceptedIff ==
    call.fn = "validate_address" =>
        (call.result.ok <=>
            /\ call.address.prefix = ExpectedPrefix[call.network]
            /\ call.address.len \in AcceptedLengths)

C13_Witness ==
    /\ call.fn = "validate_address"
    /\ call.network = "stagenet"
    /\ call.address = [prefix |-> "9", len |-> 106]
    /\ call.result.ok

\* Parsing: the digits a run of characters stands for, and the sum of two
\* unsigned integers given by their digits.
DigitOf(c) == CHOOSE d \in 0..9 : DigitChars[d + 1] = c

IsDigits(text) ==
    /\ Len(text) >= 1
    /\ \A i \in DOMAIN text : \E d \in 0..9 : DigitChars[d + 1] = text[i]

Parse(text) == Canonical([i \in 1..Len(text) |-> DigitOf(text[i])])

RECURSIVE AddFrom(_, _, _, _)
AddFrom(a, b, i, carry) ==
    IF i = 0 THEN (IF carry = 0 THEN <<>> ELSE <<carry>>)
    ELSE LET sum == a[i] + b[i] + carry
         IN Append(AddFrom(a, b, i - 1, sum \div 10), sum % 10)

Add(a, b) ==
    LET n == IF Len(a) > Len(b) THEN Len(a) ELSE Len(b)
    IN Canonical(AddFrom(Zeros(n - Len(a)) \o a, Zeros(n - Len(b)) \o b, n, 0))

DotAt(text) == CHOOSE i \in DOMAIN text : text[i] = "."

WholeText(text) == SubSeq(text, 1, DotAt(text) - 1)

FractionText(text) == SubSeq(text, DotAt(text) + 1, Len(text))

\* whole * 10^12 + fraction.
ParseXmr(text) ==
    Add(Canonical(Parse(WholeText(text)) \o Zeros(XmrDecimals)),
        Parse(FractionText(text)))

\* C14: format_xmr(p) is the whole part in decimal without leading zeros, one
\* dot and a fraction of exactly 12 digits, the whole part being p div 10^12
\* and the fraction p mod 10^12, so that whole * 10^12 + fraction is p again.
C14_FormatXmrRoundTrip ==
    call.fn = "format_xmr" =>
        /\ \E i \in DOMAIN call.result : call.result[i] = "."
        /\ IsDigits(WholeText(call.result))
        /\ Display(Parse(WholeText(call.result))) = WholeText(call.result)
        /\ IsDigits(FractionText(call.result))
        /\ Len(FractionText(call.result)) = XmrDecimals
        /\ ParseXmr(call.result) = call.piconero

C14_Witness ==
    /\ call.fn = "format_xmr"
    /\ call.piconero = <<1, 5, 0, 0, 0, 0, 0, 0, 0, 0>>
    /\ call.result = <<"0", ".", "0", "0", "1", "5", "0", "0", "0", "0", "0",
                       "0", "0", "0">>

\* C17: on one RpcClient the calls draw the ids 0, 1, 2, ... in the order
\* they draw them, and no two requests carry the same id, whether sent or
\* still in flight, however the calls interleave.
C17_RequestIdsIncreaseAndDiffer ==
    /\ \A i \in DOMAIN client.drawn : client.drawn[i] = i - 1
    /\ \A i, j \in DOMAIN client.wire :
          i # j => client.wire[i] # client.wire[j]
    /\ \A t, u \in Tasks :
          (t # u /\ client.pc[t] # "idle" /\ client.pc[u] # "idle")
              => client.id[t] # client.id[u]

C17_Witness ==
    /\ Len(client.wire) >= MaxRequests
    /\ \E i \in DOMAIN client.wire :
          i < Len(client.wire) /\ client.wire[i] > client.wire[i + 1]

\* The text request answers with for each error object of the Gateway.
ExpectedErrorText(e) ==
    CASE e = RemoteError -> "RPC error: remote (code: -1)"
      [] e.code = -32601 -> "RPC error: Method not found (code: -32601)"

\* C21: request succeeds exactly when the decoded response has a result, an
\* error object next to it or not; without a result it fails with the remote
\* error's message and code, or with "unknown RPC error" when there is no
\* error object either.
C21_ResultDecidesSuccess ==
    (call.fn = "request" /\ call.reply.kind = "response") =>
        /\ call.result.outcome.ok <=> call.reply.result # Null
        /\ call.reply.result # Null =>
              call.result.outcome = Ok(call.reply.result)
        /\ (call.reply.result = Null /\ call.reply.error # Null) =>
              call.result.outcome = Err(<<ExpectedErrorText(call.reply.error)>>)
        /\ (call.reply.result = Null /\ call.reply.error = Null) =>
              call.result.outcome = Err(<<"RPC error: unknown RPC error">>)

C21_Witness ==
    /\ call.fn = "request"
    /\ call.reply.kind = "response"
    /\ call.reply.result # Null
    /\ call.reply.error # Null
    /\ call.result.outcome.ok

\* The priority the Gateway is to receive for a --priority value.
ExpectedPriority(priority) == IF priority \in 1..3 THEN priority ELSE 0

\* C22: build-tx sends the Gateway priority 1, 2, 3 for --priority 1, 2, 3
\* and 0 for every other value; no value is rejected (the request is sent and
\* the outcome is the Gateway's), and the priority sent is within 0..3.
C22_PriorityMapping ==
    last.cmd = "build-tx" =>
        /\ Len(last.sent) = 1
        /\ last.sent[1].method = "transfer"
        /\ last.sent[1].params.priority = ExpectedPriority(last.args.priority)
        /\ last.sent[1].params.priority \in 0..3
        /\ last.outcome.ok <=> ~GatewayFailed

C22_Witness ==
    /\ last.cmd = "build-tx"
    /\ last.args.priority > 3
    /\ last.outcome.ok
    /\ last.sent[1].params.priority = 0

\* The Gateway answered the last sign-tx or submit-tx with a result.
HashListAnswered ==
    /\ last.cmd \in {"sign-tx", "submit-tx"}
    /\ last.reply.kind = "response"
    /\ last.reply.result # Null

\* C23: sign-tx and submit-tx report the first entry of the Gateway's
\* tx_hash_list as tx_hash, and succeed with an empty tx_hash when the list
\* is empty.
C23_FirstHashOrEmpty ==
    HashListAnswered =>
        /\ last.outcome.ok
        /\ last.reply.result.tx_hash_list = <<>> =>
              last.outcome.value.tx_hash = ""
        /\ last.reply.result.tx_hash_list # <<>> =>
              last.outcome.value.tx_hash = last.reply.result.tx_hash_list[1]

C23_Witness ==
    /\ HashListAnswered
    /\ last.cmd = "submit-tx"
    /\ last.reply.result.tx_hash_list = <<>>
    /\ last.outcome.ok
    /\ last.outcome.value.tx_hash = ""
====
